---- MODULE Spec2Model ----
(***************************************************************************)
(* Cross-chain auction SDK (packages/resolver/sui_move/sdk/                *)
(* python_example.py) together with the escrow / Dutch-auction ledger      *)
(* module cross_chain_auction that the SDK's move_call targets invoke.     *)
(* The SDK methods, the monitor loop and example_usage are translated from *)
(* the Python source.  The ledger module is not among the source files;    *)
(* its operations (Escrow_*, Auction_*, settle, fee, verify) follow the    *)
(* protocol description of spec.md sections 3 and 4.                       *)
(***************************************************************************)
EXTENDS Integers, Sequences, FiniteSets, TLC

VARIABLES
    now,        \* ledger clock (the "0x6" Clock object / time.time() * 1000)
    escrow,     \* the Escrow entity held by the registry
    auction,    \* the Auction entity held by the registry
    transfers,  \* asset transfers made by the ledger out of the escrow
    last,       \* the last call: ledger status and how the SDK method ended
    coins,      \* wallet of the SDK client: sequence of coin objects
    pc,         \* position of example_usage
    loc,        \* local variables of example_usage
    mon,        \* AuctionMonitor.monitor_auction_price generator state
    fn          \* inputs / outputs of the static helper calls

vars == <<now, escrow, auction, transfers, last, coins, pc, loc, mon, fn>>

(***************************************************************************)
(* Bounds of the model.                                                    *)
(***************************************************************************)
MaxTime == 4
NumSecrets == 2
MaxOffset == 2
MaxDuration == 2

(***************************************************************************)
(* Program constants.                                                      *)
(***************************************************************************)
DefaultFeeBps == 250
PollRounds == 10
BpsDenominator == 10000

Maker == "alice"
Bidders == {"bob", "carol"}
Secrets == 1 .. NumSecrets
Times == 0 .. MaxTime
Offsets == 0 .. MaxOffset
Durations == 1 .. MaxDuration
Amounts == {0, 7}
Prices == {40, 120}
Payments == {40, 41, 123, 200}

\* Optional[T]: None is the empty sequence, a value v is <<v>>.
None == << >>
NoAddress == ""
Some(v) == <<v>>

(***************************************************************************)
(* Decimal strings, as sequences of digits, and Python's int() / str().    *)
(***************************************************************************)
RECURSIVE py_int(_)
py_int(s) ==
    IF Len(s) = 0 THEN 0
    ELSE 10 * py_int(SubSeq(s, 1, Len(s) - 1)) + s[Len(s)]

RECURSIVE py_str(_)
py_str(n) ==
    IF n < 10 THEN <<n>> ELSE py_str(n \div 10) \o <<n % 10>>

\* hashlib.sha3_256(secret.encode()).digest(): a collision-free one-way map.
sha3_256(secret) == 1000 - 7 * secret

(***************************************************************************)
(* Static helpers of CrossChainAuctionSDK.  clock is int(time.time()*1000).*)
(***************************************************************************)
\* floor(a * b / c) on unbounded integers, evaluated without an intermediate
\* product wider than the model checker's integers.
FloorMulDiv(a, b, c) == (a \div c) * b + ((a % c) * b) \div c

\* fee_bps: int = 250
WithDefaultBps(fee_bps) == IF fee_bps = None THEN DefaultFeeBps ELSE fee_bps[1]

calculate_protocol_fee(price, fee_bps) ==
    py_str(FloorMulDiv(py_int(price), fee_bps, BpsDenominator))

\* Mutant: the fee is computed at the default rate, fee_bps is not passed on.
calculate_total_payment_DropsBps(price, fee_bps) ==
    py_str(py_int(price) + py_int(calculate_protocol_fee(price, DefaultFeeBps)))

calculate_total_payment(price, fee_bps) ==
    py_str(py_int(price) + py_int(calculate_protocol_fee(price, fee_bps)))

\* str(int(float(amount) * 1_000_000_000)) on a literal "<units>.<tenths>",
\* where the floating-point product is exact (0.5, 0.1, 0.3 in example_usage).
parse_sui_amount(units, tenths) == py_str((units * 10 + tenths) * 100000000)

generate_timelock(offset_ms, clock) == clock + offset_ms

is_timelock_expired(timelock, clock) == clock > timelock

(***************************************************************************)
(* Ledger module cross_chain_auction (spec.md 4.1 - 4.5).                  *)
(***************************************************************************)
NoEscrow ==
    [exists |-> FALSE, secret_hash |-> 0, amount |-> 0, maker_address |-> "",
     timelock |-> 0, is_revealed |-> FALSE, is_released |-> FALSE,
     is_refunded |-> FALSE, beneficiary |-> NoAddress, revealed_secret |-> None]

NoAuction ==
    [exists |-> FALSE, seller |-> "", start_price |-> 0, end_price |-> 0,
     start_time |-> 0, duration |-> 0, secret_hash |-> 0, is_active |-> FALSE,
     is_ended |-> FALSE, winner |-> NoAddress, final_price |-> None]

EscrowState(e) ==
    IF ~e.exists THEN "None"
    ELSE IF e.is_released THEN "Released"
    ELSE IF e.is_refunded THEN "Refunded"
    ELSE "Locked"

verify(secret, commitment) == sha3_256(secret) = commitment

fee(price, fee_bps) == FloorMulDiv(price, fee_bps, BpsDenominator)

Escrow_create(asset_amount, commitment, timelock, maker, t) ==
    IF ~(timelock > t) THEN [status |-> "InvalidTimelock", escrow |-> NoEscrow]
    ELSE IF asset_amount <= 0 THEN [status |-> "InvalidAmount", escrow |-> NoEscrow]
    ELSE [status |-> "ok",
          escrow |-> [NoEscrow EXCEPT !.exists = TRUE, !.secret_hash = commitment,
                                      !.amount = asset_amount, !.maker_address = maker,
                                      !.timelock = timelock]]

\* Mutant: a release that does not look at the escrow's state.
Escrow_release_NoStateCheck(e, secret, beneficiary, t) ==
    IF ~verify(secret, e.secret_hash)
    THEN [status |-> "InvalidSecret", escrow |-> e, paid |-> 0]
    ELSE IF ~(t < e.timelock)
    THEN [status |-> "TimelockExpired", escrow |-> e, paid |-> 0]
    ELSE [status |-> "ok",
          escrow |-> [e EXCEPT !.is_revealed = TRUE, !.is_released = TRUE,
                               !.beneficiary = beneficiary,
                               !.revealed_secret = Some(secret)],
          paid |-> 1]

Escrow_release(e, secret, beneficiary, t) ==
    IF EscrowState(e) = "Released" /\ e.revealed_secret = Some(secret)
    THEN [status |-> "AlreadyReleased", escrow |-> e, paid |-> 0]
    ELSE IF EscrowState(e) # "Locked"
    THEN [status |-> "InvalidState", escrow |-> e, paid |-> 0]
    ELSE IF ~verify(secret, e.secret_hash)
    THEN [status |-> "InvalidSecret", escrow |-> e, paid |-> 0]
    ELSE IF ~(t < e.timelock)
    THEN [status |-> "TimelockExpired", escrow |-> e, paid |-> 0]
    ELSE [status |-> "ok",
          escrow |-> [e EXCEPT !.is_revealed = TRUE, !.is_released = TRUE,
                               !.beneficiary = beneficiary,
                               !.revealed_secret = Some(secret)],
          paid |-> 1]

\* Mutant: a refund that does not look at the escrow's state.
Escrow_refund_NoStateCheck(e, t) ==
    IF ~e.exists
    THEN [status |-> "InvalidState", escrow |-> e, paid |-> 0]
    ELSE IF ~(t >= e.timelock)
    THEN [status |-> "TimelockNotExpired", escrow |-> e, paid |-> 0]
    ELSE [status |-> "ok", escrow |-> [e EXCEPT !.is_refunded = TRUE], paid |-> 1]

Escrow_refund(e, t) ==
    IF EscrowState(e) # "Locked"
    THEN [status |-> "InvalidState", escrow |-> e, paid |-> 0]
    ELSE IF ~(t >= e.timelock)
    THEN [status |-> "TimelockNotExpired", escrow |-> e, paid |-> 0]
    ELSE [status |-> "ok", escrow |-> [e EXCEPT !.is_refunded = TRUE], paid |-> 1]

Auction_create(e, seller, start_price, end_price, duration, commitment, t) ==
    IF ~e.exists THEN [status |-> "InvalidState", auction |-> NoAuction]
    ELSE [status |-> "ok",
          auction |-> [NoAuction EXCEPT !.exists = TRUE, !.seller = seller,
                                        !.start_price = start_price,
                                        !.end_price = end_price, !.start_time = t,
                                        !.duration = duration,
                                        !.secret_hash = commitment,
                                        !.is_active = TRUE]]

current_price(a, t) ==
    IF t <= a.start_time THEN a.start_price
    ELSE IF t >= a.start_time + a.duration THEN a.end_price
    ELSE a.start_price
           - ((a.start_price - a.end_price) * (t - a.start_time)) \div a.duration

is_active(a, t) ==
    a.exists /\ a.is_active /\ t < a.start_time + a.duration /\ a.winner = NoAddress

time_remaining(a, t) ==
    IF a.start_time + a.duration - t > 0 THEN a.start_time + a.duration - t ELSE 0

\* Mutant: the payment, not the clearing price, is recorded as final price.
Auction_place_bid_PaymentAsPrice(a, bidder, payment, t) ==
    IF ~a.exists \/ a.is_ended \/ ~a.is_active
    THEN [status |-> "AuctionNotActive", auction |-> a]
    ELSE IF t >= a.start_time + a.duration
    THEN [status |-> "AuctionExpired", auction |-> a]
    ELSE IF payment < current_price(a, t) + fee(current_price(a, t), DefaultFeeBps)
    THEN [status |-> "InsufficientPayment", auction |-> a]
    ELSE [status |-> "ok",
          auction |-> [a EXCEPT !.is_active = FALSE, !.is_ended = TRUE,
                                !.winner = bidder,
                                !.final_price = Some(payment)]]

Auction_place_bid(a, bidder, payment, t) ==
    IF ~a.exists \/ a.is_ended \/ ~a.is_active
    THEN [status |-> "AuctionNotActive", auction |-> a]
    ELSE IF t >= a.start_time + a.duration
    THEN [status |-> "AuctionExpired", auction |-> a]
    ELSE IF payment < current_price(a, t) + fee(current_price(a, t), DefaultFeeBps)
    THEN [status |-> "InsufficientPayment", auction |-> a]
    ELSE [status |-> "ok",
          auction |-> [a EXCEPT !.is_active = FALSE, !.is_ended = TRUE,
                                !.winner = bidder,
                                !.final_price = Some(current_price(a, t))]]

\* Mutant: settlement without the binding check of the two commitments.
settle_NoBinding(e, a, secret, t) ==
    IF ~(a.exists /\ a.is_ended /\ a.winner # NoAddress)
    THEN [status |-> "InvalidState", escrow |-> e, paid |-> 0]
    ELSE Escrow_release(e, secret, a.winner, t)

settle(e, a, secret, t) ==
    IF ~(a.exists /\ a.is_ended /\ a.winner # NoAddress)
    THEN [status |-> "InvalidState", escrow |-> e, paid |-> 0]
    ELSE IF e.secret_hash # a.secret_hash
    THEN [status |-> "CommitmentMismatch", escrow |-> e, paid |-> 0]
    ELSE Escrow_release(e, secret, a.winner, t)

(***************************************************************************)
(* Events the ledger emits for an executed transaction (spec.md 6): a      *)
(* creation confirmation or a bid notification on success, none on abort.  *)
(***************************************************************************)
EventsOf(op, status, a) ==
    IF status # "ok" THEN << >>
    ELSE IF op = "create_escrow"
    THEN << [type |-> "EscrowCreated", escrow_id |-> 1, auction_id |-> 0,
             bidder |-> NoAddress, final_price |-> None] >>
    ELSE IF op = "create_auction"
    THEN << [type |-> "AuctionCreated", escrow_id |-> 0, auction_id |-> 1,
             bidder |-> NoAddress, final_price |-> None] >>
    ELSE IF op = "place_bid"
    THEN << [type |-> "BidPlaced", escrow_id |-> 0, auction_id |-> 0,
             bidder |-> a.winner, final_price |-> a.final_price] >>
    ELSE << >>

(***************************************************************************)
(* The record of the last call.  status is the ledger's verdict ("none"    *)
(* when execute raised before reaching it); outcome is how the SDK method  *)
(* ended ("none" for a ledger transaction submitted without the SDK).      *)
(***************************************************************************)
Call(op, who, arg, status, outcome, id, winner, final_price) ==
    [flip |-> ~last.flip, op |-> op, who |-> who, arg |-> arg, status |-> status,
     outcome |-> outcome, id |-> id, winner |-> winner, final_price |-> final_price]

\* txn.execute(...) either reaches the ledger or raises in the transport.
ExecOutcomes == {"executed", "raised"}

\* for event in result.events or []: if "<T>" in event.type: return ...
\* raise Exception("... failed")
FirstEvent(events, type) ==
    LET hits == {i \in 1 .. Len(events) : events[i].type = type}
    IN  IF hits = {} THEN None
        ELSE Some(events[CHOOSE i \in hits : \A j \in hits : i <= j])

(***************************************************************************)
(* CrossChainAuctionSDK methods.                                           *)
(***************************************************************************)
create_escrow_return(events) ==
    IF FirstEvent(events, "EscrowCreated") # None
    THEN [outcome |-> "returned", id |-> FirstEvent(events, "EscrowCreated")[1].escrow_id]
    ELSE [outcome |-> "raised", id |-> 0]

create_escrow(sender, coin_balance, secret_hash, timelock, x) ==
    IF x = "raised"
    THEN /\ last' = Call("create_escrow", sender, coin_balance, "none", "raised", 0,
                         NoAddress, None)
         /\ UNCHANGED escrow
    ELSE LET r == Escrow_create(coin_balance, secret_hash,
                                py_int(py_str(timelock)), sender, now)
             ret == create_escrow_return(EventsOf("create_escrow", r.status, auction))
         IN  /\ escrow' = IF r.status = "ok" THEN r.escrow ELSE escrow
             /\ last' = Call("create_escrow", sender, coin_balance, r.status,
                             ret.outcome, ret.id, NoAddress, None)

create_auction_return(events) ==
    IF FirstEvent(events, "AuctionCreated") # None
    THEN [outcome |-> "returned", id |-> FirstEvent(events, "AuctionCreated")[1].auction_id]
    ELSE [outcome |-> "raised", id |-> 0]

create_auction(sender, start_price, end_price, duration, secret_hash, x) ==
    IF x = "raised"
    THEN /\ last' = Call("create_auction", sender, 0, "none", "raised", 0, NoAddress, None)
         /\ UNCHANGED auction
    ELSE LET r == Auction_create(escrow, sender, py_int(start_price), py_int(end_price),
                                 py_int(py_str(duration)), secret_hash, now)
             ret == create_auction_return(EventsOf("create_auction", r.status, auction))
         IN  /\ auction' = IF r.status = "ok" THEN r.auction ELSE auction
             /\ last' = Call("create_auction", sender, 0, r.status, ret.outcome, ret.id,
                             NoAddress, None)

\* Mutant: no exception when the BidPlaced event is missing.
place_bid_return_NoRaise(events) ==
    IF FirstEvent(events, "BidPlaced") # None
    THEN [outcome |-> "returned",
          winner |-> FirstEvent(events, "BidPlaced")[1].bidder,
          final_price |-> FirstEvent(events, "BidPlaced")[1].final_price]
    ELSE [outcome |-> "returned", winner |-> NoAddress, final_price |-> None]

place_bid_return(events) ==
    IF FirstEvent(events, "BidPlaced") # None
    THEN [outcome |-> "returned",
          winner |-> FirstEvent(events, "BidPlaced")[1].bidder,
          final_price |-> FirstEvent(events, "BidPlaced")[1].final_price]
    ELSE [outcome |-> "raised", winner |-> NoAddress, final_price |-> None]

place_bid(sender, coin_balance, x) ==
    IF x = "raised"
    THEN /\ last' = Call("place_bid", sender, coin_balance, "none", "raised", 0,
                         NoAddress, None)
         /\ UNCHANGED auction
    ELSE LET r == Auction_place_bid(auction, sender, coin_balance, now)
             ret == place_bid_return(EventsOf("place_bid", r.status, r.auction))
         IN  /\ auction' = r.auction
             /\ last' = Call("place_bid", sender, coin_balance, r.status, ret.outcome, 0,
                             ret.winner, ret.final_price)

\* txn.execute(gas_budget=...) with the result discarded
reveal_and_release_return(events) == [outcome |-> "returned"]

reveal_and_release(secret, beneficiary, x) ==
    IF x = "raised"
    THEN /\ last' = Call("reveal_and_release", beneficiary, secret, "none", "raised", 0,
                         NoAddress, None)
         /\ UNCHANGED <<escrow, transfers>>
    ELSE LET r == Escrow_release(escrow, secret, beneficiary, now)
             ret == reveal_and_release_return(
                        EventsOf("reveal_and_release", r.status, auction))
         IN  /\ escrow' = r.escrow
             /\ transfers' = [transfers EXCEPT !.to_beneficiary = @ + r.paid]
             /\ last' = Call("reveal_and_release", beneficiary, secret, r.status,
                             ret.outcome, 0, NoAddress, None)

\* coins.data of client.get_coins, scanned in order; None when the scan ends
\* (the method then raises "No suitable coin found").
get_suitable_coin(wallet, amount) ==
    LET fit == {i \in 1 .. Len(wallet) : py_int(wallet[i].balance) >= py_int(amount)}
    IN  IF fit = {} THEN None
        ELSE Some(wallet[CHOOSE i \in fit : \A j \in fit : i <= j].coin_object_id)

\* Placeholders of the view functions.
get_current_price(auction_id) == <<0>>

is_auction_active(auction_id) == TRUE

get_time_remaining(auction_id) == 0

(***************************************************************************)
(* Ledger transactions that have no SDK wrapper: refund and settle.        *)
(***************************************************************************)
refund_tx ==
    LET r == Escrow_refund(escrow, now)
    IN  /\ escrow' = r.escrow
        /\ transfers' = [transfers EXCEPT !.to_maker = @ + r.paid]
        /\ last' = Call("refund", NoAddress, 0, r.status, "none", 0, NoAddress, None)

settle_tx(secret) ==
    LET r == settle(escrow, auction, secret, now)
    IN  /\ escrow' = r.escrow
        /\ transfers' = [transfers EXCEPT !.to_beneficiary = @ + r.paid]
        /\ last' = Call("settle", NoAddress, secret, r.status, "none", 0, NoAddress, None)

(***************************************************************************)
(* Spec: the SDK methods and the ledger transactions called by any party   *)
(* in any order, with the clock advancing.                                 *)
(***************************************************************************)
NoCall ==
    [flip |-> FALSE, op |-> "none", who |-> NoAddress, arg |-> 0, status |-> "none",
     outcome |-> "none", id |-> 0, winner |-> NoAddress, final_price |-> None]

NoMon == [pc |-> "idle", price |-> None, polled_at |-> 0, was_active |-> FALSE]

NoFn == [op |-> "none", price |-> << >>, fee_bps |-> None, fee |-> << >>,
         total |-> << >>, timelock |-> 0, expired |-> FALSE, at |-> 0]

NoLoc == [secret |-> 0, secret_hash |-> 0, coin |-> 0, timelock |-> 0, escrow_id |-> 0,
          auction_id |-> 0, price |-> << >>, i |-> 0, winner |-> NoAddress,
          final_price |-> None]

Init ==
    /\ now = 0
    /\ escrow = NoEscrow
    /\ auction = NoAuction
    /\ transfers = [to_beneficiary |-> 0, to_maker |-> 0]
    /\ last = NoCall
    /\ coins = << >>
    /\ pc = "idle"
    /\ loc = NoLoc
    /\ mon = NoMon
    /\ fn = NoFn

Tick ==
    /\ now < MaxTime
    /\ now' = now + 1
    /\ UNCHANGED <<escrow, auction, transfers, last, coins, pc, loc, mon, fn>>

CallCreateEscrow ==
    /\ ~escrow.exists
    /\ \E amount \in Amounts, s \in Secrets, off \in Offsets, x \in ExecOutcomes :
           create_escrow(Maker, amount, sha3_256(s), generate_timelock(off, now), x)
    /\ UNCHANGED <<now, auction, transfers, coins, pc, loc, mon, fn>>

CallCreateAuction ==
    /\ ~auction.exists
    /\ \E sp \in Prices, ep \in Prices, d \in Durations, s \in Secrets,
          x \in ExecOutcomes :
           /\ ep <= sp
           /\ create_auction(Maker, py_str(sp), py_str(ep), d, sha3_256(s), x)
    /\ UNCHANGED <<now, escrow, transfers, coins, pc, loc, mon, fn>>

CallPlaceBid ==
    /\ \E b \in Bidders, payment \in Payments, x \in ExecOutcomes :
           place_bid(b, payment, x)
    /\ UNCHANGED <<now, escrow, transfers, coins, pc, loc, mon, fn>>

CallRevealAndRelease ==
    /\ \E s \in Secrets, b \in Bidders, x \in ExecOutcomes :
           reveal_and_release(s, b, x)
    /\ UNCHANGED <<now, auction, coins, pc, loc, mon, fn>>

Refund ==
    /\ refund_tx
    /\ UNCHANGED <<now, auction, coins, pc, loc, mon, fn>>

Settle ==
    /\ \E s \in Secrets : settle_tx(s)
    /\ UNCHANGED <<now, auction, coins, pc, loc, mon, fn>>

(***************************************************************************)
(* Spec: the escrow lifecycle.  Any party creates the escrow, submits      *)
(* reveal_and_release through the SDK (retries included) or refund.        *)
(***************************************************************************)
Next ==
    \/ Tick
    \/ CallCreateEscrow
    \/ CallRevealAndRelease
    \/ Refund

Spec == Init /\ [][Next]_vars

\* An executed ledger transaction of kind op is the step being taken.
Executes(op) == last'.flip # last.flip /\ last'.op = op /\ last'.status # "none"

LockedEscrow(s, timelock) == Escrow_create(7, sha3_256(s), timelock, Maker, 0).escrow

InitAuction ==
    /\ now = 0
    /\ escrow = LockedEscrow(1, MaxTime + 1)
    /\ auction = NoAuction
    /\ transfers = [to_beneficiary |-> 0, to_maker |-> 0]
    /\ last = NoCall
    /\ coins = << >>
    /\ pc = "idle"
    /\ loc = NoLoc
    /\ mon = NoMon
    /\ fn = NoFn

NextAuction ==
    \/ Tick
    \/ CallCreateAuction
    \/ CallPlaceBid

SpecAuction == InitAuction /\ [][NextAuction]_vars

\* C5: on an active auction a bid paying less than current price plus fee
\* fails with InsufficientPayment (the SDK call raises) and leaves the auction
\* untouched; a bid paying at least that ends the auction with the bidder as
\* winner and the current price, not the payment, as final price, which the SDK
\* call returns.
C5_BidResolution ==
    [][(Executes("place_bid") /\ is_active(auction, now))
          => LET p == current_price(auction, now)
                 total == p + fee(p, DefaultFeeBps)
             IN  IF last'.arg < total
                 THEN /\ last'.status = "InsufficientPayment"
                      /\ last'.outcome = "raised"
                      /\ auction' = auction
                      /\ auction'.is_active /\ auction'.winner = NoAddress
                 ELSE /\ last'.status = "ok"
                      /\ auction'.is_ended /\ ~auction'.is_active
                      /\ auction'.winner = last'.who
                      /\ auction'.final_price = Some(p)
                      /\ last'.outcome = "returned"
                      /\ last'.winner = last'.who
                      /\ last'.final_price = Some(p)]_vars

\* Witness of C5: an accepted bid that overpaid; the price at bid time is
\* recorded.
C5_Witness ==
    /\ last.op = "place_bid"
    /\ last.status = "ok"
    /\ auction.is_ended
    /\ auction.winner = last.who
    /\ auction.final_price # None
    /\ last.arg > auction.final_price[1] + fee(auction.final_price[1], DefaultFeeBps)
    /\ auction.final_price[1] < auction.start_price

(***************************************************************************)
(* SpecSettle: settlement of a locked escrow for the winner of an auction  *)
(* created at time 0 with a commitment of its own.                         *)
(***************************************************************************)
InitSettle ==
    /\ now = 0
    /\ \E s \in Secrets, timelock \in {MaxOffset, MaxTime + 1} :
           escrow = LockedEscrow(s, timelock)
    /\ \E s \in Secrets :
           auction = Auction_create(escrow, Maker, 120, 40, MaxDuration,
                                    sha3_256(s), 0).auction
    /\ transfers = [to_beneficiary |-> 0, to_maker |-> 0]
    /\ last = NoCall
    /\ coins = << >>
    /\ pc = "idle"
    /\ loc = NoLoc
    /\ mon = NoMon
    /\ fn = NoFn

NextSettle ==
    \/ Tick
    \/ CallPlaceBid
    \/ Settle
    \/ Refund

SpecSettle == InitSettle /\ [][NextSettle]_vars

FeePrices == {0, 1, 39, 40, 41, 399, 400, 9999, 10000, 123456, 1000000000}
FeeRates == {None, Some(0), Some(1), Some(250), Some(9999), Some(10000)}

InitFee ==
    /\ now = 0
    /\ escrow = NoEscrow
    /\ auction = NoAuction
    /\ transfers = [to_beneficiary |-> 0, to_maker |-> 0]
    /\ last = NoCall
    /\ coins = << >>
    /\ pc = "idle"
    /\ loc = NoLoc
    /\ mon = NoMon
    /\ \E p \in FeePrices, b \in FeeRates :
           fn = [NoFn EXCEPT !.price = py_str(p), !.fee_bps = b]

CallProtocolFee ==
    /\ fn.fee = << >>
    /\ fn' = [fn EXCEPT !.op = "calculate_protocol_fee",
                        !.fee = calculate_protocol_fee(fn.price, WithDefaultBps(fn.fee_bps))]
    /\ UNCHANGED <<now, escrow, auction, transfers, last, coins, pc, loc, mon>>

CallTotalPayment ==
    /\ fn.total = << >>
    /\ fn' = [fn EXCEPT !.op = "calculate_total_payment",
                        !.total = calculate_total_payment(fn.price, WithDefaultBps(fn.fee_bps))]
    /\ UNCHANGED <<now, escrow, auction, transfers, last, coins, pc, loc, mon>>

NextFee ==
    \/ CallProtocolFee
    \/ CallTotalPayment

SpecFee == InitFee /\ [][NextFee]_vars

\* f is floor(price * bps / 10000); the product is formed only where it fits.
IsFloorFee(f, price, bps) ==
    /\ f >= 0
    /\ price <= 200000 => (f * 10000 <= price * bps /\ price * bps < (f + 1) * 10000)
    /\ (price = 1000000000 /\ bps = 250) => f = 25000000

\* C8: the fee returned is floor(price * fee_bps / 10000) with fee_bps 250 when
\* omitted, the total returned is the price plus exactly that fee, both as
\* canonical decimal strings; 1000000000 at 250 bps gives 25000000 and
\* 1025000000.
C8_FeeAndTotal ==
    LET price == py_int(fn.price)
        bps == IF fn.fee_bps = None THEN 250 ELSE fn.fee_bps[1]
    IN  /\ fn.fee # << >> =>
              /\ IsFloorFee(py_int(fn.fee), price, bps)
              /\ fn.fee = py_str(py_int(fn.fee))
        /\ fn.total # << >> =>
              /\ IsFloorFee(py_int(fn.total) - price, price, bps)
              /\ fn.total = py_str(py_int(fn.total))
        /\ (fn.fee # << >> /\ fn.total # << >>) =>
              py_int(fn.total) = price + py_int(fn.fee)

\* Witness of C8: the scenario of the default rate.
C8_Witness ==
    /\ fn.price = <<1, 0, 0, 0, 0, 0, 0, 0, 0, 0>>
    /\ fn.fee_bps = None
    /\ fn.fee = <<2, 5, 0, 0, 0, 0, 0, 0>>
    /\ fn.total = <<1, 0, 2, 5, 0, 0, 0, 0, 0, 0>>

(***************************************************************************)
(* SpecTimelock: the expiry test of the SDK next to the ledger's refund.   *)
(***************************************************************************)
CallIsTimelockExpired ==
    /\ escrow.exists
    /\ fn' = [NoFn EXCEPT !.op = "is_timelock_expired", !.timelock = escrow.timelock,
                          !.expired = is_timelock_expired(escrow.timelock, now),
                          !.at = now]
    /\ UNCHANGED <<now, escrow, auction, transfers, last, coins, pc, loc, mon>>

NextTimelock ==
    \/ Tick
    \/ CallCreateEscrow
    \/ Refund
    \/ CallIsTimelockExpired

SpecTimelock == Init /\ [][NextTimelock]_vars

\* C7: on a Locked escrow with timelock T a refund succeeds at every
\* now >= T, T included, and fails with TimelockNotExpired, changing nothing,
\* at every now < T; is_timelock_expired answers the same at every now.
C7_TimelockBoundary ==
    /\ [][(Executes("refund") /\ EscrowState(escrow) = "Locked")
             => IF now >= escrow.timelock
                THEN last'.status = "ok" /\ EscrowState(escrow') = "Refunded"
                ELSE last'.status = "TimelockNotExpired" /\ escrow' = escrow]_vars
    /\ []((/\ fn.op = "is_timelock_expired"
           /\ fn.at = now
           /\ EscrowState(escrow) = "Locked"
           /\ fn.timelock = escrow.timelock)
             => (fn.expired <=> now >= escrow.timelock))

(***************************************************************************)
(* SpecMonitor: AuctionMonitor.monitor_auction_price polling an auction    *)
(* that bidders and the clock bring to its end.  The formatted_price field *)
(* of the yielded dict is not modelled.                                    *)
(***************************************************************************)
InitMonitor ==
    /\ now = 0
    /\ \E s \in Secrets, timelock \in {MaxOffset, MaxTime + 1} :
           escrow = LockedEscrow(s, timelock)
    /\ \E sp \in Prices, ep \in Prices :
           /\ ep <= sp
           /\ auction = Auction_create(escrow, Maker, sp, ep, MaxDuration,
                                       escrow.secret_hash, 0).auction
    /\ transfers = [to_beneficiary |-> 0, to_maker |-> 0]
    /\ last = NoCall
    /\ coins = << >>
    /\ pc = "idle"
    /\ loc = NoLoc
    /\ mon = [NoMon EXCEPT !.pc = "check"]
    /\ fn = NoFn

\* is_active = self.sdk.is_auction_active(auction_id); if not is_active: break
\* price = self.sdk.get_current_price(auction_id); yield {...}
MonitorPoll ==
    /\ mon.pc = "check"
    /\ IF ~is_auction_active(1)
       THEN mon' = [mon EXCEPT !.pc = "done"]
       ELSE mon' = [pc |-> "yielded", price |-> Some(get_current_price(1)),
                    polled_at |-> now, was_active |-> is_active(auction, now)]
    /\ UNCHANGED <<now, escrow, auction, transfers, last, coins, pc, loc, fn>>

\* await asyncio.sleep(interval_seconds), then the next iteration
MonitorResume ==
    /\ mon.pc = "yielded"
    /\ mon' = [mon EXCEPT !.pc = "check"]
    /\ UNCHANGED <<now, escrow, auction, transfers, last, coins, pc, loc, fn>>

NextMonitor ==
    \/ Tick
    \/ CallPlaceBid
    \/ MonitorPoll
    \/ MonitorResume

SpecMonitor == InitMonitor /\ [][NextMonitor]_vars

\* C6: the price a query reports equals start_price at now = start_time,
\* equals end_price at every now >= start_time + duration, and is never above
\* the price reported by the query before it.
C6_PriceCurve ==
    [][(mon.pc = "check" /\ mon'.pc = "yielded")
          => LET q == py_int(mon'.price[1])
             IN  /\ now = auction.start_time => q = auction.start_price
                 /\ now >= auction.start_time + auction.duration
                       => q = auction.end_price
                 /\ mon.price # None => q <= py_int(mon.price[1])]_vars

\* C9: a poll made when the auction is inactive ends the loop without
\* yielding, and no step of the monitor writes escrow or auction state.
C9_MonitorStops ==
    [][mon' # mon
          => /\ (mon.pc = "check" /\ ~is_active(auction, now)) => mon'.pc = "done"
             /\ UNCHANGED <<escrow, auction, transfers>>]_vars

(***************************************************************************)
(* SpecExample: one run of example_usage against the ledger, with other    *)
(* bidders, refunds and the clock as its environment.  Time is scaled: the *)
(* timelock offset is MaxOffset and the auction duration MaxDuration.      *)
(***************************************************************************)
Coin(id, balance) == [coin_object_id |-> id, balance |-> py_str(balance)]

Wallets ==
    { <<Coin(1, 1000000000), Coin(2, 600000000)>>,
      <<Coin(1, 50), Coin(2, 2000000000)>>,
      <<Coin(1, 1000000000)>>,
      <<Coin(1, 50)>> }

CoinBalance(wallet, id) ==
    py_int(wallet[CHOOSE i \in 1 .. Len(wallet) : wallet[i].coin_object_id = id].balance)

Without(wallet, id) == SelectSeq(wallet, LAMBDA c : c.coin_object_id # id)

InitExample ==
    /\ now = 0
    /\ escrow = NoEscrow
    /\ auction = NoAuction
    /\ transfers = [to_beneficiary |-> 0, to_maker |-> 0]
    /\ last = NoCall
    /\ coins \in Wallets
    /\ pc = "start"
    /\ loc = NoLoc
    /\ mon = NoMon
    /\ fn = NoFn

\* secret, secret_hash = CrossChainAuctionSDK.generate_secret()
ExGenerateSecret ==
    /\ pc = "start"
    /\ \E s \in Secrets : loc' = [loc EXCEPT !.secret = s, !.secret_hash = sha3_256(s)]
    /\ pc' = "get_coin"
    /\ UNCHANGED <<now, escrow, auction, transfers, last, coins, mon, fn>>

\* coin_id = sdk.get_suitable_coin("1000000000"); timelock = generate_timelock(...)
ExGetEscrowCoin ==
    /\ pc = "get_coin"
    /\ LET c == get_suitable_coin(coins, py_str(1000000000))
       IN  IF c = None
           THEN pc' = "except" /\ loc' = loc
           ELSE /\ pc' = "create_escrow"
                /\ loc' = [loc EXCEPT !.coin = c[1],
                                      !.timelock = generate_timelock(MaxOffset, now)]
    /\ UNCHANGED <<now, escrow, auction, transfers, last, coins, mon, fn>>

\* escrow_id = sdk.create_escrow(coin_id, secret_hash, timelock, "...")
ExCreateEscrow ==
    /\ pc = "create_escrow"
    /\ \E x \in ExecOutcomes :
           create_escrow(Maker, CoinBalance(coins, loc.coin), loc.secret_hash,
                         loc.timelock, x)
    /\ IF last'.outcome = "returned"
       THEN /\ pc' = "create_auction"
            /\ loc' = [loc EXCEPT !.escrow_id = last'.id]
            /\ coins' = Without(coins, loc.coin)
       ELSE pc' = "except" /\ UNCHANGED <<loc, coins>>
    /\ UNCHANGED <<now, auction, transfers, mon, fn>>

\* auction_id = sdk.create_auction(int(escrow_id), parse("0.5"), parse("0.1"), ...)
ExCreateAuction ==
    /\ pc = "create_auction"
    /\ \E x \in ExecOutcomes :
           create_auction(Maker, parse_sui_amount(0, 5), parse_sui_amount(0, 1),
                          MaxDuration, loc.secret_hash, x)
    /\ IF last'.outcome = "returned"
       THEN pc' = "poll" /\ loc' = [loc EXCEPT !.auction_id = last'.id]
       ELSE pc' = "except" /\ loc' = loc
    /\ UNCHANGED <<now, escrow, transfers, coins, mon, fn>>

\* for i in range(10): price = sdk.get_current_price(int(auction_id))
\*     if int(price) <= int(parse_sui_amount("0.3")): ... break
\*     time.sleep(30)
ExPoll ==
    /\ pc = "poll"
    /\ LET price == get_current_price(loc.auction_id)
       IN  IF py_int(price) <= py_int(parse_sui_amount(0, 3))
           THEN pc' = "bid_coin" /\ loc' = [loc EXCEPT !.price = price]
           ELSE /\ loc' = [loc EXCEPT !.price = price, !.i = loc.i + 1]
                /\ pc' = IF loc.i + 1 < PollRounds THEN "poll" ELSE "done"
    /\ UNCHANGED <<now, escrow, auction, transfers, last, coins, mon, fn>>

\* bid_coin_id = sdk.get_suitable_coin(calculate_total_payment(price))
ExGetBidCoin ==
    /\ pc = "bid_coin"
    /\ LET c == get_suitable_coin(coins,
                    calculate_total_payment(loc.price, WithDefaultBps(None)))
       IN  IF c = None
           THEN pc' = "except" /\ loc' = loc
           ELSE pc' = "place_bid" /\ loc' = [loc EXCEPT !.coin = c[1]]
    /\ UNCHANGED <<now, escrow, auction, transfers, last, coins, mon, fn>>

\* bid_result = sdk.place_bid(int(auction_id), bid_coin_id)
ExPlaceBid ==
    /\ pc = "place_bid"
    /\ \E x \in ExecOutcomes : place_bid(Maker, CoinBalance(coins, loc.coin), x)
    /\ IF last'.outcome = "returned"
       THEN /\ pc' = "release"
            /\ loc' = [loc EXCEPT !.winner = last'.winner,
                                  !.final_price = last'.final_price]
            /\ coins' = IF last'.status = "ok" THEN Without(coins, loc.coin) ELSE coins
       ELSE pc' = "except" /\ UNCHANGED <<loc, coins>>
    /\ UNCHANGED <<now, escrow, transfers, mon, fn>>

\* sdk.reveal_and_release(int(escrow_id), secret, bid_result['winner'])
\* print("Escrow released to winner"); break
ExRevealAndRelease ==
    /\ pc = "release"
    /\ \E x \in ExecOutcomes : reveal_and_release(loc.secret, loc.winner, x)
    /\ pc' = IF last'.outcome = "returned" THEN "done" ELSE "except"
    /\ UNCHANGED <<now, auction, coins, loc, mon, fn>>

\* A bid of another taker with a coin that covers the start price and fee.
OtherBid ==
    /\ \E b \in Bidders : place_bid(b, 600000000, "executed")
    /\ UNCHANGED <<now, escrow, transfers, coins, pc, loc, mon, fn>>

NextExample ==
    \/ Tick
    \/ ExGenerateSecret
    \/ ExGetEscrowCoin
    \/ ExCreateEscrow
    \/ ExCreateAuction
    \/ ExPoll
    \/ ExGetBidCoin
    \/ ExPlaceBid
    \/ ExRevealAndRelease
    \/ OtherBid
    \/ Refund

SpecExample == InitExample /\ [][NextExample]_vars

\* C4: whenever reveal_and_release is invoked the auction has ended with a
\* recorded winner, by an accepted bid, and the beneficiary passed is that
\* winner.
C4_ReleaseAfterWinner ==
    [][(last'.flip # last.flip /\ last'.op = "reveal_and_release")
          => /\ auction.is_ended
             /\ auction.winner # NoAddress
             /\ auction.final_price # None
             /\ last'.who = auction.winner]_vars

\* Witness of C4: the run released the escrow to the auction's winner.
C4_Witness ==
    /\ pc = "done"
    /\ last.op = "reveal_and_release"
    /\ last.status = "ok"
    /\ auction.is_ended
    /\ escrow.is_released
    /\ escrow.beneficiary = auction.winner

\* C10: no SDK operation returns normally when its transaction did not take
\* effect, and the caller is past a step only if that step took effect.
C10_FailurePropagates ==
    /\ last.outcome = "returned" => last.status = "ok"
    /\ pc \in {"create_auction", "poll", "bid_coin", "place_bid", "release", "done"}
          => escrow.exists
    /\ pc \in {"poll", "bid_coin", "place_bid", "release", "done"} => auction.exists
    /\ pc \in {"release", "done"} => auction.is_ended
    /\ pc = "done" => escrow.is_released

====
